---- MODULE Spec2Model ----
(***************************************************************************)
(* Model of src/api/index.py: the Flask handlers that normalise agent      *)
(* output (summarize_conversation, get_prompts, get_current_agenda) and    *)
(* the transcript pipeline (save_audio, clear_transcript).                 *)
(*                                                                         *)
(* Text is modelled as a sequence of one-character strings, so that the    *)
(* regular expressions, len(), lower(), startswith(), strip() and          *)
(* json.loads of the source are computed character by character.          *)
(***************************************************************************)
EXTENDS Integers, Sequences, FiniteSets, TLC

(***************************************************************************)
(* Bounds of the model.                                                    *)
(***************************************************************************)
\* how many times a worker output may be wrapped in a code fence
MaxWrap == 2
\* how many save_audio requests are started in one behaviour
MaxRequests == 2
\* the wall clock runs from 0 to MaxTime seconds
MaxTime == 1

(***************************************************************************)
(* Characters and text.                                                    *)
(***************************************************************************)
Quote == "\""
Backslash == "\\"
\* the backtick (TLA+ strings cannot hold it): a character of its own
Backtick == "backtick"

\* str.strip() and the regex class \s, over the characters of the model
IsSpace(c) == c \in {" ", "\t", "\n", "\r"}

\* the characters json.decoder's WHITESPACE pattern skips
JsonWs == {" ", "\t", "\n", "\r"}

Digits == {"0", "1", "2", "3", "4", "5", "6", "7", "8", "9"}

\* str.lower(), one character
LowerChar(c) ==
    CASE c = "A" -> "a" [] c = "B" -> "b" [] c = "C" -> "c" [] c = "D" -> "d"
      [] c = "E" -> "e" [] c = "F" -> "f" [] c = "G" -> "g" [] c = "H" -> "h"
      [] c = "I" -> "i" [] c = "J" -> "j" [] c = "K" -> "k" [] c = "L" -> "l"
      [] c = "M" -> "m" [] c = "N" -> "n" [] c = "O" -> "o" [] c = "P" -> "p"
      [] c = "Q" -> "q" [] c = "R" -> "r" [] c = "S" -> "s" [] c = "T" -> "t"
      [] c = "U" -> "u" [] c = "V" -> "v" [] c = "W" -> "w" [] c = "X" -> "x"
      [] c = "Y" -> "y" [] c = "Z" -> "z" [] OTHER -> c

Lower(s) == [i \in 1..Len(s) |-> LowerChar(s[i])]

\* s[i..] starts with p (str.startswith at an offset, 1-based)
StartsWithAt(s, i, p) ==
    /\ i + Len(p) - 1 <= Len(s)
    /\ \A k \in 1..Len(p) : s[i + k - 1] = p[k]

StartsWith(s, p) == StartsWithAt(s, 1, p)

\* the suffix of s from index i on
From(s, i) == SubSeq(s, i, Len(s))

RECURSIVE SkipSpace(_, _)
\* the first index at or after i that holds no whitespace (regex \s*, greedy)
SkipSpace(s, i) ==
    IF i <= Len(s) /\ IsSpace(s[i]) THEN SkipSpace(s, i + 1) ELSE i

RECURSIVE SkipSpaceBack(_, _)
\* the last index at or before i that holds no whitespace (0 when none)
SkipSpaceBack(s, i) ==
    IF i >= 1 /\ IsSpace(s[i]) THEN SkipSpaceBack(s, i - 1) ELSE i

\* str.strip()
Strip(s) ==
    LET a == SkipSpace(s, 1)
        b == SkipSpaceBack(s, Len(s))
    IN  IF a > b THEN <<>> ELSE SubSeq(s, a, b)

Fence == <<Backtick, Backtick, Backtick>>
JsonTag == <<"j", "s", "o", "n">>

\* the first substitution without flags=re.IGNORECASE
StripOpenFence_CaseSensitive(s) ==
    IF ~StartsWith(s, Fence) THEN s
    ELSE LET afterTag == IF StartsWithAt(s, 4, JsonTag) THEN 8 ELSE 4
         IN  From(s, SkipSpace(s, afterTag))

\* re.sub(r'^```(?:json)?\s*', '', s, flags=re.IGNORECASE)
StripOpenFence(s) ==
    IF ~StartsWith(s, Fence) THEN s
    ELSE LET afterTag == IF StartsWithAt(Lower(s), 4, JsonTag) THEN 8 ELSE 4
         IN  From(s, SkipSpace(s, afterTag))

\* re.sub(r'\s*```$', '', s): $ matches at the end of the text and just
\* before a newline that ends the text; the match starts at the leftmost
\* index from which only whitespace precedes the fence.
StripCloseFence(s) ==
    LET n == Len(s)
    IN  IF n >= 3 /\ StartsWithAt(s, n - 2, Fence)
        THEN SubSeq(s, 1, SkipSpaceBack(s, n - 3))
        ELSE IF n >= 4 /\ s[n] = "\n" /\ StartsWithAt(s, n - 3, Fence)
        THEN SubSeq(s, 1, SkipSpaceBack(s, n - 4)) \o <<"\n">>
        ELSE s

\* the two substitutions every handler applies to the worker output
StripFences(s) == StripCloseFence(StripOpenFence(s))

(***************************************************************************)
(* json.loads, as the handlers use it.  A JSON value is a record           *)
(*   [type, text, keys, vals]                                              *)
(* type is "dict", "list", "str", "num", "bool" or "null"; text holds the   *)
(* characters of a string, number or literal; keys and vals hold the       *)
(* members of an object in order (vals alone the items of an array).       *)
(***************************************************************************)
JStr(t) == [type |-> "str", text |-> t, keys |-> <<>>, vals |-> <<>>]
JNum(t) == [type |-> "num", text |-> t, keys |-> <<>>, vals |-> <<>>]
JBool(t) == [type |-> "bool", text |-> t, keys |-> <<>>, vals |-> <<>>]
JNull == [type |-> "null", text |-> <<>>, keys |-> <<>>, vals |-> <<>>]
JList(items) == [type |-> "list", text |-> <<>>, keys |-> <<>>, vals |-> items]
JDict(ks, vs) == [type |-> "dict", text |-> <<>>, keys |-> ks, vals |-> vs]

\* a parse step: the value and the index after it, or a JSONDecodeError
Parsed(v, i) == [ok |-> TRUE, val |-> v, pos |-> i]
DecodeError == [ok |-> FALSE, val |-> JNull, pos |-> 0]

RECURSIVE SkipJsonWs(_, _)
SkipJsonWs(s, i) ==
    IF i <= Len(s) /\ s[i] \in JsonWs THEN SkipJsonWs(s, i + 1) ELSE i

RECURSIVE SkipDigits(_, _)
SkipDigits(s, i) ==
    IF i <= Len(s) /\ s[i] \in Digits THEN SkipDigits(s, i + 1) ELSE i

\* the character a two-character escape stands for ("" when it is none);
\* \uXXXX is outside the characters of the model
Unescape(c) ==
    CASE c = Quote -> Quote [] c = Backslash -> Backslash [] c = "/" -> "/"
      [] c = "n" -> "\n" [] c = "t" -> "\t" [] c = "r" -> "\r"
      [] c = "b" -> "backspace" [] c = "f" -> "formfeed"
      [] OTHER -> ""

RECURSIVE ScanString(_, _, _)
\* json.decoder.scanstring (strict): i is the index after the opening quote
ScanString(s, i, acc) ==
    IF i > Len(s) THEN DecodeError
    ELSE IF s[i] = Quote THEN Parsed(JStr(acc), i + 1)
    ELSE IF s[i] = Backslash
    THEN IF i + 1 > Len(s) \/ Unescape(s[i + 1]) = "" THEN DecodeError
         ELSE ScanString(s, i + 2, Append(acc, Unescape(s[i + 1])))
    ELSE IF s[i] \in {"\n", "\t", "\r"} THEN DecodeError
    ELSE ScanString(s, i + 1, Append(acc, s[i]))

\* json.scanner NUMBER_RE: (-?(?:0|[1-9]\d*))(\.\d+)?([eE][-+]?\d+)?
\* each part takes the index the part before it ended at (0: no match)
IntEnd(s, a) ==
    IF a <= Len(s) /\ s[a] = "0" THEN a + 1
    ELSE IF a <= Len(s) /\ s[a] \in Digits THEN SkipDigits(s, a)
    ELSE 0

FracEnd(s, b) ==
    IF b > 0 /\ b + 1 <= Len(s) /\ s[b] = "." /\ s[b + 1] \in Digits
    THEN SkipDigits(s, b + 1) ELSE b

ExpEnd(s, c) ==
    LET n == Len(s)
        d == IF c > 0 /\ c <= n /\ s[c] \in {"e", "E"}
             THEN IF c + 1 <= n /\ s[c + 1] \in {"+", "-"} THEN c + 2 ELSE c + 1
             ELSE 0
    IN  IF d > 0 /\ d <= n /\ s[d] \in Digits THEN SkipDigits(s, d) ELSE c

NumberFrom(s, i, e) ==
    IF e = 0 THEN DecodeError ELSE Parsed(JNum(SubSeq(s, i, e - 1)), e)

ScanNumber(s, i) ==
    NumberFrom(s, i,
        ExpEnd(s, FracEnd(s, IntEnd(s, IF i <= Len(s) /\ s[i] = "-" THEN i + 1 ELSE i))))

LitNull == <<"n", "u", "l", "l">>
LitTrue == <<"t", "r", "u", "e">>
LitFalse == <<"f", "a", "l", "s", "e">>
LitNaN == <<"N", "a", "N">>
LitInfinity == <<"I", "n", "f", "i", "n", "i", "t", "y">>
LitNegInfinity == <<"-">> \o LitInfinity

\* the scanner's last cases: a number, then the constants NaN and +-Infinity
NumberOrConstant(s, i, num) ==
    IF num.ok THEN num
    ELSE IF StartsWithAt(s, i, LitNaN) THEN Parsed(JNum(LitNaN), i + 3)
    ELSE IF StartsWithAt(s, i, LitInfinity) THEN Parsed(JNum(LitInfinity), i + 8)
    ELSE IF StartsWithAt(s, i, LitNegInfinity)
    THEN Parsed(JNum(LitNegInfinity), i + 9)
    ELSE DecodeError

RECURSIVE ScanValue(_, _)
RECURSIVE ScanMembers(_, _, _, _)
RECURSIVE ScanItems(_, _, _)

\* json.decoder.JSONObject, after a member: "}" ends the object, "," goes on
MemberNext(s, nxt, ks, vs) ==
    IF nxt > Len(s) THEN DecodeError
    ELSE IF s[nxt] = "}" THEN Parsed(JDict(ks, vs), nxt + 1)
    ELSE IF s[nxt] = "," THEN ScanMembers(s, SkipJsonWs(s, nxt + 1), ks, vs)
    ELSE DecodeError

MemberAfterValue(s, v, ks, vs) ==
    IF ~v.ok THEN DecodeError
    ELSE MemberNext(s, SkipJsonWs(s, v.pos), ks, Append(vs, v.val))

MemberAtColon(s, colon, ks, vs) ==
    IF colon > Len(s) \/ s[colon] # ":" THEN DecodeError
    ELSE MemberAfterValue(s, ScanValue(s, SkipJsonWs(s, colon + 1)), ks, vs)

MemberAfterKey(s, k, ks, vs) ==
    IF ~k.ok THEN DecodeError
    ELSE MemberAtColon(s, SkipJsonWs(s, k.pos), Append(ks, k.val.text), vs)

\* json.decoder.JSONObject: the members from index i (a key's opening quote)
ScanMembers(s, i, ks, vs) ==
    IF i > Len(s) \/ s[i] # Quote THEN DecodeError
    ELSE MemberAfterKey(s, ScanString(s, i + 1, <<>>), ks, vs)

\* json.decoder.JSONArray, after an item: "]" ends the array, "," goes on
ItemNext(s, nxt, vs) ==
    IF nxt > Len(s) THEN DecodeError
    ELSE IF s[nxt] = "]" THEN Parsed(JList(vs), nxt + 1)
    ELSE IF s[nxt] = "," THEN ScanItems(s, SkipJsonWs(s, nxt + 1), vs)
    ELSE DecodeError

ItemAfterValue(s, v, vs) ==
    IF ~v.ok THEN DecodeError
    ELSE ItemNext(s, SkipJsonWs(s, v.pos), Append(vs, v.val))

\* json.decoder.JSONArray: the items from index i
ScanItems(s, i, vs) == ItemAfterValue(s, ScanValue(s, i), vs)

\* after "{" or "[": the empty container, or its members
ObjectFrom(s, j) ==
    IF j <= Len(s) /\ s[j] = "}" THEN Parsed(JDict(<<>>, <<>>), j + 1)
    ELSE ScanMembers(s, j, <<>>, <<>>)

ArrayFrom(s, j) ==
    IF j <= Len(s) /\ s[j] = "]" THEN Parsed(JList(<<>>), j + 1)
    ELSE ScanItems(s, j, <<>>)

\* json.scanner.py_make_scanner._scan_once at index i
ScanValue(s, i) ==
    IF i > Len(s) THEN DecodeError
    ELSE IF s[i] = Quote THEN ScanString(s, i + 1, <<>>)
    ELSE IF s[i] = "{" THEN ObjectFrom(s, SkipJsonWs(s, i + 1))
    ELSE IF s[i] = "[" THEN ArrayFrom(s, SkipJsonWs(s, i + 1))
    ELSE IF StartsWithAt(s, i, LitNull) THEN Parsed(JNull, i + 4)
    ELSE IF StartsWithAt(s, i, LitTrue) THEN Parsed(JBool(LitTrue), i + 4)
    ELSE IF StartsWithAt(s, i, LitFalse) THEN Parsed(JBool(LitFalse), i + 5)
    ELSE NumberOrConstant(s, i, ScanNumber(s, i))

\* JSONDecoder.decode, after the value: trailing text is "Extra data"
Decoded(s, v) ==
    IF v.ok /\ SkipJsonWs(s, v.pos) = Len(s) + 1 THEN v ELSE DecodeError

\* json.loads(s)
json_loads(s) == Decoded(s, ScanValue(s, SkipJsonWs(s, 1)))

RECURSIVE LastIndexOf(_, _, _)
\* the last index at or before i where ks holds k (0 when none): a repeated
\* key of a JSON object keeps its last value
LastIndexOf(ks, k, i) ==
    IF i = 0 THEN 0 ELSE IF ks[i] = k THEN i ELSE LastIndexOf(ks, k, i - 1)

HasKey(d, k) == LastIndexOf(d.keys, k, Len(d.keys)) > 0

\* dict.get(k, default)
DictGet(d, k, default) ==
    IF HasKey(d, k) THEN d.vals[LastIndexOf(d.keys, k, Len(d.keys))] ELSE default

(***************************************************************************)
(* Responses of the handlers: jsonify(...) with its HTTP status.           *)
(***************************************************************************)
\* jsonify({key: value}), status 200
Ok(key, value) == [status |-> 200, key |-> key, value |-> value, error |-> ""]
\* jsonify({"error": ...}), status; error names the message's fixed prefix
Err(status, error) == [status |-> status, key |-> "error", value |-> JNull, error |-> error]
NoResponse == [status |-> 0, key |-> "", value |-> JNull, error |-> ""]

\* a value computed inside a try block, or the exception the block raised
Value(v) == [raised |-> FALSE, val |-> v]
Raised == [raised |-> TRUE, val |-> JNull]

KeySummary == <<"s", "u", "m", "m", "a", "r", "y">>
KeyPrompts == <<"p", "r", "o", "m", "p", "t", "s">>
KeyCurrentItem == <<"c", "u", "r", "r", "e", "n", "t", "_", "i", "t", "e", "m">>
ErrorToken == <<"e", "r", "r", "o", "r">>
SummarySentinel == <<"C", "o", "u", "l", "d", " ", "n", "o", "t", " ", "e", "x", "t", "r", "a", "c", "t", " ", "s", "u", "m", "m", "a", "r", "y", ".">>
AgendaSentinel == <<"C", "o", "u", "l", "d", " ", "n", "o", "t", " ", "d", "e", "t", "e", "r", "m", "i", "n", "e", " ", "c", "u", "r", "r", "e", "n", "t", " ", "i", "t", "e", "m", ".">>
NoTextProvided == <<"N", "o", " ", "t", "e", "x", "t", " ", "p", "r", "o", "v", "i", "d", "e", "d", " ", "t", "o", " ", "s", "u", "m", "m", "a", "r", "i", "z", "e", ".">>
AgendaNotAvailable == <<"A", "g", "e", "n", "d", "a", " ", "o", "r", " ", "t", "r", "a", "n", "s", "c", "r", "i", "p", "t", " ", "n", "o", "t", " ", "a", "v", "a", "i", "l", "a", "b", "l", "e", ".">>

\* run_agent_sync, on a worker call that returned: result.final_output.strip()
run_agent_sync(final_output) == Strip(final_output)

\* summarize_conversation, lines 339-350: summary_text from the cleaned text
\* and what json.loads made of it.  json.loads may return any JSON value;
\* .get on one that is no dict raises AttributeError, which only the
\* handler's outer except catches.
summary_from(summary_output, summary_json) ==
    IF summary_json.ok
    THEN IF summary_json.val.type = "dict"
         THEN Value(DictGet(summary_json.val, KeySummary, JStr(summary_output)))
         ELSE Raised
    ELSE IF Len(summary_output) > 10
            /\ ~StartsWith(Lower(summary_output), ErrorToken)
    THEN Value(JStr(summary_output))
    ELSE Value(JStr(SummarySentinel))

summary_parse(summary_output) ==
    summary_from(summary_output, json_loads(summary_output))

\* summarize_conversation, lines 335-350: summary_text from raw_output
summary_text(raw_output) == summary_parse(StripFences(raw_output))

\* get_prompts, lines 382-389
prompts_checked(got) ==
    IF got.type = "list" THEN Value(got) ELSE Value(JList(<<>>))

prompts_from(prompts_json) ==
    IF prompts_json.ok
    THEN IF prompts_json.val.type = "dict"
         THEN prompts_checked(DictGet(prompts_json.val, KeyPrompts, JList(<<>>)))
         ELSE Raised
    ELSE Value(JList(<<>>))

\* get_prompts, lines 379-389: prompts_list from raw_output
prompts_list(raw_output) == prompts_from(json_loads(StripFences(raw_output)))

\* get_current_agenda, lines 425-431
current_item_from(agenda_output, agenda_json) ==
    IF agenda_json.ok
    THEN IF agenda_json.val.type = "dict"
         THEN Value(DictGet(agenda_json.val, KeyCurrentItem, JStr(AgendaSentinel)))
         ELSE Raised
    ELSE IF Len(agenda_output) > 5
    THEN Value(JStr(agenda_output))
    ELSE Value(JStr(AgendaSentinel))

current_item_parse(agenda_output) ==
    current_item_from(agenda_output, json_loads(agenda_output))

\* get_current_agenda, lines 422-431: current_item from raw_output
current_item(raw_output) == current_item_parse(StripFences(raw_output))

Endpoints == {"summarize", "get-prompts", "get-current-agenda"}

\* the key of each endpoint's success response
ResponseKey(ep) ==
    CASE ep = "summarize" -> "summary"
      [] ep = "get-prompts" -> "prompts"
      [] ep = "get-current-agenda" -> "current_item"

\* the prefix of each endpoint's error message (the outer except clause)
ErrorPrefix(ep) ==
    CASE ep = "summarize" -> "Summarization error"
      [] ep = "get-prompts" -> "Prompt generation error"
      [] ep = "get-current-agenda" -> "Agenda tracking error"

\* the value each handler computes from the worker output
HandlerValue(ep, raw_output) ==
    CASE ep = "summarize" -> summary_text(raw_output)
      [] ep = "get-prompts" -> prompts_list(raw_output)
      [] ep = "get-current-agenda" -> current_item(raw_output)

\* return jsonify({key: value}), or the outer except clause on an exception
ResponseOf(ep, v) ==
    IF v.raised THEN Err(500, ErrorPrefix(ep)) ELSE Ok(ResponseKey(ep), v.val)

\* the try block of a handler after the worker call returned: the response
HandlerResponse(ep, raw_output) == ResponseOf(ep, HandlerValue(ep, raw_output))

(***************************************************************************)
(* What a worker (Runner.run_sync) may return: final_output is free text.  *)
(* The outputs of the model are a body, wrapped up to MaxWrap times in a   *)
(* code fence with an optional language tag, either delimiter optional.    *)
(***************************************************************************)
Bodies == {
    \* {"summary":"Team concluded the meeting."}
    <<"{", "\"", "s", "u", "m", "m", "a", "r", "y", "\"", ":", "\"", "T", "e", "a", "m", " ", "c", "o", "n", "c", "l", "u", "d", "e", "d", " ", "t", "h", "e", " ", "m", "e", "e", "t", "i", "n", "g", ".", "\"", "}">>,
    \* {"summary":"All done."}
    <<"{", "\"", "s", "u", "m", "m", "a", "r", "y", "\"", ":", "\"", "A", "l", "l", " ", "d", "o", "n", "e", ".", "\"", "}">>,
    \* {"current_item":"Item 2"}
    <<"{", "\"", "c", "u", "r", "r", "e", "n", "t", "_", "i", "t", "e", "m", "\"", ":", "\"", "I", "t", "e", "m", " ", "2", "\"", "}">>,
    \* {"prompts":["Why?"]}
    <<"{", "\"", "p", "r", "o", "m", "p", "t", "s", "\"", ":", "[", "\"", "W", "h", "y", "?", "\"", "]", "}">>,
    \* {"note":"x"}
    <<"{", "\"", "n", "o", "t", "e", "\"", ":", "\"", "x", "\"", "}">>,
    \* 42
    <<"4", "2">>,
    \* "hi"
    <<"\"", "h", "i", "\"">>,
    \* [1]
    <<"[", "1", "]">>,
    \* null
    <<"n", "u", "l", "l">>,
    \* The meeting is running behind schedule on item 2.
    <<"T", "h", "e", " ", "m", "e", "e", "t", "i", "n", "g", " ", "i", "s", " ", "r", "u", "n", "n", "i", "n", "g", " ", "b", "e", "h", "i", "n", "d", " ", "s", "c", "h", "e", "d", "u", "l", "e", " ", "o", "n", " ", "i", "t", "e", "m", " ", "2", ".">>,
    \* Item 2
    <<"I", "t", "e", "m", " ", "2">>,
    \* error: rate limited
    <<"e", "r", "r", "o", "r", ":", " ", "r", "a", "t", "e", " ", "l", "i", "m", "i", "t", "e", "d">>,
    \* whitespace only, and the empty output
    <<" ", "\n">>,
    <<>>
}

\* the opening delimiter with what follows it on its line, and the closing
\* delimiter on a line of its own
Openers == {<<>>,
            Fence \o <<"\n">>,
            Fence \o <<"j", "s", "o", "n", "\n">>,
            Fence \o <<"J", "S", "O", "N", "\n">>,
            Fence \o <<"j", "s", "o", "n">>}
Closers == {<<>>, <<"\n">> \o Fence}

\* one wrapping: at least one of the two delimiters is there
Wraps == {w \in [open : Openers, close : Closers] : w.open # <<>> \/ w.close # <<>>}

ApplyWrap(w, t) == w.open \o t \o w.close

RECURSIVE ApplyWraps(_, _)
\* the body wrapped by ws[1], the result by ws[2], ...
ApplyWraps(ws, t) ==
    IF ws = <<>> THEN t ELSE ApplyWraps(Tail(ws), ApplyWrap(Head(ws), t))

WrapSeqs == UNION {[1..n -> Wraps] : n \in 0..MaxWrap}

\* request bodies: the JSON fields a handler reads
TextInputs == {<<>>, <<" ">>, <<"H", "e", "l", "l", "o", " ", "t", "e", "a", "m">>}
Requests == [has_transcript : BOOLEAN, transcript_text : TextInputs,
             has_agenda : BOOLEAN, agenda_text : TextInputs]

(***************************************************************************)
(* State.                                                                  *)
(***************************************************************************)
VARIABLES
    h_pc,        \* a handler invocation: "idle", "calling" (suspended in run_agent_sync), "done"
    h_endpoint,  \* the endpoint being served
    h_calls,     \* Runner.run_sync calls made by this invocation
    h_worker,    \* how the worker call ended: "none", "returned", "failed"
    h_body,      \* the body of the worker's final_output
    h_wraps,     \* the fences wrapped around it
    h_output,    \* final_output, as the worker returned it
    h_resp       \* the response of the handler

agent_vars == <<h_pc, h_endpoint, h_calls, h_worker, h_body, h_wraps, h_output, h_resp>>

(***************************************************************************)
(* State of the transcript pipeline: save_audio and clear_transcript.      *)
(* Every save_audio request is a handler invocation of its own; the        *)
(* server runs them concurrently, so an invocation advances one file or    *)
(* network operation at a time.                                            *)
(***************************************************************************)
VARIABLES
    api_key,      \* ELEVENLABS_API_KEY is set (read once, at import)
    now,          \* datetime.now(), in seconds
    recordings,   \* recordings/: file name -> the request whose audio it holds (0: no file)
    transcript,   \* recordings/transcript.txt: [exists, content]
    started,      \* save_audio requests received so far
    pc,           \* per request: where its save_audio invocation stands
    filename,     \* per request: the local variable filename
    backend,      \* per request: how the transcription call ended
    write_error,  \* per request: what the transcript write raised and 259-262 logged:
                  \* "none", "storage" (the file could not be opened or written) or
                  \* "data" (the text to write could not be computed)
    resp          \* per request: the response

pipeline_vars == <<api_key, now, recordings, transcript, started,
                   pc, filename, backend, write_error, resp>>
vars == <<agent_vars, pipeline_vars>>

AgentsInit ==
    /\ h_pc = "idle"
    /\ h_endpoint = "summarize"
    /\ h_calls = 0
    /\ h_worker = "none"
    /\ h_body = <<>>
    /\ h_wraps = <<>>
    /\ h_output = <<>>
    /\ h_resp = NoResponse

\* a handler returns before it calls the worker
EarlyReturn(ep, response) ==
    /\ h_pc' = "done"
    /\ h_endpoint' = ep
    /\ h_resp' = response
    /\ h_calls' = 0
    /\ UNCHANGED <<pipeline_vars, h_worker, h_body, h_wraps, h_output>>

\* a handler builds its agent and enters run_agent_sync
CallWorker(ep) ==
    /\ h_pc' = "calling"
    /\ h_endpoint' = ep
    /\ h_calls' = 1
    /\ UNCHANGED <<pipeline_vars, h_worker, h_body, h_wraps, h_output, h_resp>>

\* summarize_conversation, lines 312-333
summarize_conversation(req) ==
    /\ h_pc = "idle"
    /\ IF ~req.has_transcript
       THEN EarlyReturn("summarize", Err(400, "Missing 'transcript_text' in request body"))
       ELSE IF req.transcript_text = <<>>
       THEN EarlyReturn("summarize", Ok("summary", JStr(NoTextProvided)))
       ELSE CallWorker("summarize")

\* get_prompts, lines 359-378
get_prompts(req) ==
    /\ h_pc = "idle"
    /\ IF ~req.has_transcript
       THEN EarlyReturn("get-prompts", Err(400, "Missing 'transcript_text' in request body"))
       ELSE IF Strip(req.transcript_text) = <<>>
       THEN EarlyReturn("get-prompts", Ok("prompts", JList(<<>>)))
       ELSE CallWorker("get-prompts")

\* get_current_agenda, lines 397-421
get_current_agenda(req) ==
    /\ h_pc = "idle"
    /\ IF ~req.has_transcript \/ ~req.has_agenda
       THEN EarlyReturn("get-current-agenda",
                        Err(400, "Missing 'transcript_text' or 'agenda_text' in request body"))
       ELSE IF Strip(req.transcript_text) = <<>> \/ Strip(req.agenda_text) = <<>>
       THEN EarlyReturn("get-current-agenda", Ok("current_item", JStr(AgendaNotAvailable)))
       ELSE CallWorker("get-current-agenda")

\* Runner.run_sync returns final_output; the handler normalises it and answers
WorkerReturn(body, ws) ==
    /\ h_pc = "calling"
    /\ h_worker' = "returned"
    /\ h_body' = body
    /\ h_wraps' = ws
    /\ h_output' = ApplyWraps(ws, body)
    /\ h_resp' = HandlerResponse(h_endpoint, run_agent_sync(h_output'))
    /\ h_pc' = "done"
    /\ UNCHANGED <<pipeline_vars, h_endpoint, h_calls>>

\* run_agent_sync calling Runner.run_sync again after it raised, where the
\* source re-raises
WorkerFail_Retry ==
    /\ h_pc = "calling"
    /\ h_calls < 3
    /\ h_calls' = h_calls + 1
    /\ h_worker' = "failed"
    /\ UNCHANGED <<pipeline_vars, h_pc, h_endpoint, h_body, h_wraps, h_output, h_resp>>

\* Runner.run_sync raises (timeout, bad request, backend error): run_agent_sync
\* re-raises and the handler's outer except answers 500
WorkerFail ==
    /\ h_pc = "calling"
    /\ h_worker' = "failed"
    /\ h_resp' = Err(500, ErrorPrefix(h_endpoint))
    /\ h_pc' = "done"
    /\ UNCHANGED <<pipeline_vars, h_endpoint, h_calls, h_body, h_wraps, h_output>>

\* the response is sent; the next request starts from nothing
Respond ==
    /\ h_pc = "done"
    /\ h_pc' = "idle"
    /\ h_calls' = 0
    /\ h_worker' = "none"
    /\ h_body' = <<>>
    /\ h_wraps' = <<>>
    /\ h_output' = <<>>
    /\ h_resp' = NoResponse
    /\ UNCHANGED <<pipeline_vars, h_endpoint>>

AgentsNext ==
    \/ \E req \in Requests : summarize_conversation(req)
    \/ \E req \in Requests : get_prompts(req)
    \/ \E req \in Requests : get_current_agenda(req)
    \/ \E body \in Bodies, ws \in WrapSeqs : WorkerReturn(body, ws)
    \/ WorkerFail
    \/ Respond

(***************************************************************************)
(* The transcript pipeline.                                                *)
(***************************************************************************)
Reqs == 1..MaxRequests

\* request.form.get('duration', '0')
Durations == {"0", "5"}

\* datetime.now().strftime('%Y%m%d_%H%M%S') and the name built from it
FileName(timestamp, duration) == [timestamp |-> timestamp, duration |-> duration]
FileNames == {FileName(t, d) : t \in 0..MaxTime, d \in Durations}
NoFile == [timestamp |-> -1, duration |-> ""]

\* the pieces of text the transcript file is made of
Text(r) == <<"text", r>>
Blank == <<"\n\n", 0>>

\* the file opened with mode "w" where the source opens it with "a"
Written_Overwrite(content, pieces) == pieces

\* what the file holds after pieces are written to it in append mode
Written(content, pieces) == content \o pieces

\* How the transcription call (lines 221-241) can end.
\*   text        200, a JSON object with a string "text"
\*   no_text     200, a JSON object without "text" (segments only, say)
\*   null_text   200, a JSON object whose "text" is null
\*   not_object  200, JSON that is no object
\*   bad_json    200, a body response.json() cannot parse; response.json()
\*               then raises a RequestException (requests >= 2.27) or,
\*   bad_json_value_error, a plain ValueError (requests before 2.27)
\*   no_response requests raised without a response (connection, timeout)
\*   http_*      raise_for_status() raised; the error body is as named
\*   open_failed open(filepath, 'rb') raised
BackendOk == {"text", "no_text", "null_text", "not_object"}
BackendHttpErrors == {"http_detail_message", "http_detail_string", "http_other_json",
                      "http_not_json"}
BackendFailed == {"bad_json", "bad_json_value_error", "no_response", "open_failed"}
                    \cup BackendHttpErrors
Backends == BackendOk \cup BackendFailed

\* lines 269-295: error_detail for a requests.exceptions.RequestException
error_detail(outcome) ==
    CASE outcome = "http_detail_message" -> "detail.message"
      [] outcome = "http_detail_string" -> "detail"
      [] outcome = "http_other_json" -> "json.dumps(response_data)"
      [] outcome = "http_not_json" -> "response.text[:500]"
      [] OTHER -> "str(e)"

SaveResponse(status, message, name, error) ==
    [status |-> status, message |-> message, filename |-> name, error |-> error]
NoSaveResponse == SaveResponse(0, "", NoFile, "")

\* lines 263-267
SaveSucceeded(name) ==
    SaveResponse(200, "Audio saved and transcribed successfully", name, "")

\* the failure answered without the name of the saved recording
TranscriptionFailed_NoFile(name, outcome) ==
    SaveResponse(500, "Audio saved but transcription failed", NoFile, error_detail(outcome))

\* lines 297-301 (a RequestException) and 305-309 (any other exception)
TranscriptionFailed(name, outcome) ==
    IF outcome \in {"open_failed", "bad_json_value_error"}
    THEN SaveResponse(500, "Audio saved but transcription failed", name,
                      "Unexpected server error during transcription")
    ELSE SaveResponse(500, "Audio saved but transcription failed", name,
                      error_detail(outcome))

\* line 257: transcription_data.get("text", "") + "\n\n", as pieces to write;
\* the expression raises when the data is no dict or the text no string
TranscriptRaises(outcome) == outcome \in {"null_text", "not_object"}
TranscriptPieces(r, outcome) ==
    IF outcome = "text" THEN <<Text(r), Blank>> ELSE <<Blank>>

PipelineInit ==
    /\ api_key \in BOOLEAN
    /\ now = 0
    /\ recordings = [f \in FileNames |-> 0]
    /\ transcript = [exists |-> FALSE, content |-> <<>>]
    /\ started = 0
    /\ pc = [r \in Reqs |-> "idle"]
    /\ filename = [r \in Reqs |-> NoFile]
    /\ backend = [r \in Reqs |-> "none"]
    /\ write_error = [r \in Reqs |-> "none"]
    /\ resp = [r \in Reqs |-> NoSaveResponse]

Init == AgentsInit /\ PipelineInit

\* the wall clock advances
Tick ==
    /\ now < MaxTime
    /\ now' = now + 1
    /\ UNCHANGED <<agent_vars, api_key, recordings, transcript, started,
                   pc, filename, backend, write_error, resp>>

\* save_audio returns resp
Finish(r, response) ==
    /\ resp' = [resp EXCEPT ![r] = response]
    /\ pc' = [pc EXCEPT ![r] = "done"]

\* save_audio, lines 188-218: the request checks and the audio file
save_audio_start(has_audio, duration, saved) ==
    LET r == started + 1
        name == FileName(now, duration)
    IN  /\ started < MaxRequests
        /\ started' = r
        /\ IF ~api_key
           THEN /\ Finish(r, SaveResponse(500, "", NoFile,
                                          "Server configuration error: Missing API Key"))
                /\ UNCHANGED <<recordings, filename>>
           ELSE IF ~has_audio
           THEN /\ Finish(r, SaveResponse(400, "", NoFile, "No audio file provided"))
                /\ UNCHANGED <<recordings, filename>>
           ELSE IF ~saved
           THEN /\ Finish(r, SaveResponse(500, "", NoFile, "Server error saving file"))
                /\ UNCHANGED <<recordings, filename>>
           ELSE /\ recordings' = [recordings EXCEPT ![name] = r]
                /\ filename' = [filename EXCEPT ![r] = name]
                /\ pc' = [pc EXCEPT ![r] = "transcribing"]
                /\ UNCHANGED resp
        /\ UNCHANGED <<agent_vars, api_key, now, transcript, backend, write_error>>

\* save_audio, lines 221-242 and 269-309: the transcription call returns
save_audio_transcribed(r, outcome) ==
    /\ pc[r] = "transcribing"
    /\ backend' = [backend EXCEPT ![r] = outcome]
    /\ IF outcome \in BackendOk
       THEN /\ pc' = [pc EXCEPT ![r] = "check_exists"]
            /\ UNCHANGED resp
       ELSE Finish(r, TranscriptionFailed(filename[r], outcome))
    /\ UNCHANGED <<agent_vars, api_key, now, recordings, transcript, started,
                   filename, write_error>>

\* save_audio, line 247: os.path.exists(transcripts_file)
save_audio_check_exists(r) ==
    /\ pc[r] = "check_exists"
    /\ pc' = [pc EXCEPT ![r] = IF transcript.exists THEN "append" ELSE "create"]
    /\ UNCHANGED <<agent_vars, api_key, now, recordings, transcript, started,
                   filename, backend, write_error, resp>>

\* save_audio, lines 248-253: open(transcripts_file, "w") creates the file
\* and empties one that is already there; a failure is logged (259-262) and
\* the handler answers at 263
save_audio_create(r, writable) ==
    /\ pc[r] = "create"
    /\ IF writable
       THEN /\ transcript' = [exists |-> TRUE, content |-> <<>>]
            /\ pc' = [pc EXCEPT ![r] = "append"]
            /\ UNCHANGED <<write_error, resp>>
       ELSE /\ write_error' = [write_error EXCEPT ![r] = "storage"]
            /\ Finish(r, SaveSucceeded(filename[r]))
            /\ UNCHANGED transcript
    /\ UNCHANGED <<agent_vars, api_key, now, recordings, started, filename, backend>>

\* save_audio, lines 256-267: open(transcripts_file, "a") and the write, then
\* the answer.  open creates a missing file before the text is computed.
save_audio_append(r, writable) ==
    /\ pc[r] = "append"
    /\ IF ~writable
       THEN /\ write_error' = [write_error EXCEPT ![r] = "storage"]
            /\ UNCHANGED transcript
       ELSE IF TranscriptRaises(backend[r])
       THEN /\ write_error' = [write_error EXCEPT ![r] = "data"]
            /\ transcript' = [transcript EXCEPT !.exists = TRUE]
       ELSE /\ transcript' = [exists |-> TRUE,
                              content |-> Written(transcript.content,
                                                  TranscriptPieces(r, backend[r]))]
            /\ UNCHANGED write_error
    /\ Finish(r, SaveSucceeded(filename[r]))
    /\ UNCHANGED <<agent_vars, api_key, now, recordings, started, filename, backend>>

\* clear_transcript, lines 526-557.  Nothing removes the file, so the check
\* at 541 and the truncation at 542 act as one step.
clear_transcript(writable) ==
    /\ IF transcript.exists /\ writable
       THEN transcript' = [transcript EXCEPT !.content = <<>>]
       ELSE UNCHANGED transcript
    /\ UNCHANGED <<agent_vars, api_key, now, recordings, started, pc, filename, backend,
                   write_error, resp>>

PipelineNext ==
    \/ Tick
    \/ \E has_audio \in BOOLEAN, duration \in Durations, saved \in BOOLEAN :
          save_audio_start(has_audio, duration, saved)
    \/ \E r \in Reqs, outcome \in Backends : save_audio_transcribed(r, outcome)
    \/ \E r \in Reqs : save_audio_check_exists(r)
    \/ \E r \in Reqs, writable \in BOOLEAN : save_audio_create(r, writable)
    \/ \E r \in Reqs, writable \in BOOLEAN : save_audio_append(r, writable)
    \/ \E writable \in BOOLEAN : clear_transcript(writable)

\* the transcript pipeline alone
Spec == Init /\ [][PipelineNext]_vars

\* the agent handlers alone (they never read the transcription API key)
InitAgents == Init /\ api_key
SpecAgents == InitAgents /\ [][AgentsNext]_vars

(***************************************************************************)
(* The claims about the agent handlers, checked under SpecAgents.          *)
(***************************************************************************)
\* a handler answered after its worker call returned
Answered == h_pc = "done" /\ h_worker = "returned"
\* the worker output as the handler cleaned it, and what json.loads makes of it
Cleaned == StripFences(run_agent_sync(h_output))
CleanedJson == json_loads(Cleaned)

\* the field each handler looks for in structured output
ExpectedKey(ep) ==
    CASE ep = "summarize" -> KeySummary
      [] ep = "get-prompts" -> KeyPrompts
      [] ep = "get-current-agenda" -> KeyCurrentItem

\* C1: whatever a worker call that succeeded returned (empty, fenced, JSON of
\* any top-level type, prose), the handler answers a normal result, never
\* an error response.
C1_NormalizationNeverErrors == Answered => h_resp.status = 200

\* the sentinel text and the least length of narrative text, per handler
Sentinel(ep) == IF ep = "summarize" THEN SummarySentinel ELSE AgendaSentinel
LongEnough(ep, t) == IF ep = "summarize" THEN Len(t) > 10 ELSE Len(t) > 5

\* C3: when the cleaned output is no JSON, the summarize and agenda handlers
\* answer the cleaned text exactly when it is long enough and does not begin
\* with "error" in any casing, and the fixed sentinel text otherwise.
C3_NarrativeOrSentinel ==
    (Answered /\ h_endpoint \in {"summarize", "get-current-agenda"} /\ ~CleanedJson.ok)
    => h_resp = Ok(ResponseKey(h_endpoint),
                   JStr(IF LongEnough(h_endpoint, Cleaned)
                           /\ ~StartsWith(Lower(Cleaned), ErrorToken)
                        THEN Cleaned
                        ELSE Sentinel(h_endpoint)))

\* C4: a worker output that is valid JSON wrapped once in a code fence
\* (tagged json in any casing or untagged, either delimiter possibly
\* missing) gets the response the unwrapped JSON gets.
C4_FencedSameAsUnwrapped ==
    (Answered /\ Len(h_wraps) = 1 /\ json_loads(h_body).ok)
    => h_resp = HandlerResponse(h_endpoint, run_agent_sync(h_body))

\* the scenario of the specification: an upper-case tagged fence around
\* {"summary":"Team concluded the meeting."} is answered with the summary
C4_Witness ==
    /\ Answered
    /\ h_endpoint = "summarize"
    /\ Len(h_wraps) = 1
    /\ h_wraps[1].open = Fence \o <<"J", "S", "O", "N", "\n">>
    /\ h_wraps[1].close # <<>>
    /\ h_resp.status = 200
    /\ h_resp.value.type = "str"
    /\ Len(h_resp.value.text) = 27

\* C5: normalisation is idempotent: stripping the fences of a cleaned text
\* changes nothing, and the text a handler answered, given to the handler
\* as a worker output, is answered unchanged.
C5_Idempotent ==
    Answered =>
        /\ StripFences(Cleaned) = Cleaned
        /\ (h_resp.status = 200 /\ h_resp.value.type = "str")
           => HandlerResponse(h_endpoint, run_agent_sync(h_resp.value.text)) = h_resp

\* C6: when the cleaned output is a JSON object without the handler's field,
\* the handler answers the cleaned text as the field's value.
C6_MissingFieldKeepsText ==
    (Answered /\ CleanedJson.ok /\ CleanedJson.val.type = "dict"
     /\ ~HasKey(CleanedJson.val, ExpectedKey(h_endpoint)))
    => h_resp = Ok(ResponseKey(h_endpoint), JStr(Cleaned))

(***************************************************************************)
(* The claims about the transcript pipeline, checked under Spec.           *)
(***************************************************************************)
\* a successful backend response without a transcript text in it
Unrecognized == {"no_text", "null_text", "not_object"}

IsPrefix(s, t) == Len(s) <= Len(t) /\ SubSeq(t, 1, Len(s)) = s

\* the piece of text a serialized backend response would be in the file
Serialized(r) == <<"json", r>>

\* C7: a save_audio call whose transcript could not be persisted answers an
\* error, never success.
C7_PersistFailureReported ==
    \A r \in Reqs : (pc[r] = "done" /\ write_error[r] = "storage") => resp[r].status # 200

\* C8: the step that writes the transcript of a successful backend response
\* without a recognized text persists the serialized raw response.
C8_UnrecognizedShapePersisted ==
    [][\A r \in Reqs :
          (pc[r] = "append" /\ pc'[r] = "done" /\ backend[r] \in Unrecognized
           /\ write_error'[r] # "storage")
          => \E i \in 1..Len(transcript'.content) : transcript'.content[i] = Serialized(r)]_vars

\* C9: a backend call that failed or answered an unrecognized shape ends in
\* an error response, with the backend's detail when the backend gave one.
C9_BackendFailureIsError ==
    \A r \in Reqs :
        (pc[r] = "done" /\ backend[r] \in BackendFailed \cup Unrecognized)
        => /\ resp[r].status # 200
           /\ backend[r] \in BackendHttpErrors => resp[r].error = error_detail(backend[r])

C11_ReferencesDistinct ==
    \A r, q \in Reqs :
        (r # q /\ filename[r] # NoFile /\ filename[q] # NoFile)
        => /\ filename[r] # filename[q]
           /\ recordings[filename[r]] = r

\* C12: a handler calls its worker at most once; when the call failed the
\* handler answers at once, without another call, with an error response
\* whose message names the handler's capability, which no other handler's
\* message names.
C12_FailedCallNotRetried ==
    /\ h_calls <= 1
    /\ h_worker = "failed"
       => /\ h_pc = "done"
          /\ h_resp.status = 500
          /\ h_resp.key = "error"
          /\ h_resp.error = ErrorPrefix(h_endpoint)
          /\ \A ep \in Endpoints \ {h_endpoint} : ErrorPrefix(ep) # h_resp.error

\* the agenda handler answered a failed worker call
C12_Witness ==
    /\ h_pc = "done"
    /\ h_worker = "failed"
    /\ h_calls = 1
    /\ h_endpoint = "get-current-agenda"
    /\ h_resp = Err(500, "Agenda tracking error")

\* C13: the create step of a save_audio call (after its exists check found
\* no file) erases nothing that another call appended to the file meanwhile.
C13_CreateKeepsAppendedText ==
    [][\A r \in Reqs :
          (pc[r] = "create" /\ pc'[r] = "append")
          => IsPrefix(transcript.content, transcript'.content)]_vars

\* C14: the step in which the transcription of a save_audio call fails leaves
\* the transcript file and the recordings as they were and answers an error
\* with the name of the saved recording, which is there; and a step of a
\* save_audio call that changes the transcript file belongs to a call whose
\* backend answered successfully.
C14_FailedTranscriptionFrame ==
    [][\A r \in Reqs :
          /\ (pc[r] = "transcribing" /\ backend'[r] \in BackendFailed)
             => /\ transcript' = transcript
                /\ recordings' = recordings
                /\ pc'[r] = "done"
                /\ resp'[r].status = 500
                /\ resp'[r].message = "Audio saved but transcription failed"
                /\ resp'[r].filename = filename[r]
                /\ filename[r] # NoFile
                /\ recordings[filename[r]] # 0
          /\ (pc'[r] # pc[r] /\ transcript' # transcript)
             => backend[r] \in BackendOk]_vars

\* a transcription failed while the file held the transcript of another
\* call, and the file still holds it
C14_Witness ==
    \E r, q \in Reqs :
        /\ r # q
        /\ pc[r] = "done" /\ backend[r] \in BackendFailed
        /\ resp[r].status = 500 /\ resp[r].filename = filename[r]
        /\ pc[q] = "done" /\ backend[q] = "text"
        /\ transcript.content = <<Text(q), Blank>>

====
